---- MODULE Spec2Model ----
(***************************************************************************)
(* Cascade: the node-expansion cache and graph-state engine of             *)
(* groundhelio/cascade (App.tsx, services/geminiService.ts,                *)
(* services/firebaseService.ts, components/Graph.tsx).                     *)
(*                                                                         *)
(* The application is single threaded: a handler runs to its first await,  *)
(* and every continuation runs to the next await.  Each action below is    *)
(* one such synchronous stretch; a React state update and the render that  *)
(* follows it are taken as one step.                                       *)
(***************************************************************************)
EXTENDS Integers, Sequences, FiniteSets, Bags, TLC

VARIABLES
    nodes,            \* graphData.nodes: sequence of GraphNode records
    links,            \* graphData.links: sequence of [source, target]
    chartNodes,       \* the node data held by the chart (Graph component)
    selectedCountry,  \* App state selectedCountry
    memoryCache,      \* geminiService memoryCache: label -> memory
    severityCache,    \* geminiService severityCache: label -> scores
    expandCache,      \* geminiService expandCache: key -> result
    tasks,            \* bag of suspended async handler executions
    nextId,           \* the next identifier uuidv4() hands out
    ops,              \* handler invocations so far (bounds the model)
    generatorCalls,   \* calls of the external generator so far
    batchOf,          \* history: batchOf[id] = first id of the batch id was attached in
    generations,      \* history: bag of node ids, one copy per generator call
                      \*   made for that node's expansion since its last reset
    overlapped,       \* history: ids on which two expand/refresh runs overlapped
    last,             \* history: what the last step did
    logicalKeys,      \* persistence: the two cache keys whose entries get saved
    saved,            \* persistence: which of them saveToCacheFirebase has written
    firebase,         \* persistence: caches/expand in the database, by storage key
    loaded,           \* persistence: what loadCacheFromFirebase returned, if called
    storedCountry     \* localStorage item cascadeCountryContext

graphVars == <<nodes, links, chartNodes>>
cacheVars == <<memoryCache, severityCache, expandCache>>
histVars  == <<batchOf, generations, overlapped, last>>
codecVars == <<logicalKeys, saved, firebase, loaded, storedCountry>>
vars == <<nodes, links, chartNodes, selectedCountry, memoryCache, severityCache,
          expandCache, tasks, nextId, ops, generatorCalls, batchOf,
          generations, overlapped, last, logicalKeys, saved, firebase, loaded,
          storedCountry>>

(***************************************************************************)
(* Bounds of the model.                                                    *)
(***************************************************************************)
MaxOps == 3
MaxCalls == 4
MaxKeyLen == 3
MaxRequests == 2

(***************************************************************************)
(* Program constants.                                                      *)
(***************************************************************************)
MaxDepth == 50
RootId == 0
Absent == -1

NoCountry == "null"
Countries == {NoCountry, "Kenya"}

(***************************************************************************)
(* Labels are strings; a string is a sequence of text pieces, each piece   *)
(* either one reserved character or a run of ordinary characters.          *)
(***************************************************************************)
RootLabel == <<"National Riots for Democracy">>
LabelA == <<"a">>
LabelB == <<"b">>
LabelC == <<"c">>

\* What the generator stub may answer to generateInitialBranches.
BranchResults == { <<LabelA, LabelB>>, <<LabelA, LabelA>> }

\* What the generator stub may answer to an expansion request.
ExpandResults ==
    { [consequences |-> <<LabelA>>, responses |-> <<LabelB>>],
      [consequences |-> <<LabelC>>, responses |-> <<>>],
      [consequences |-> <<>>,       responses |-> <<>>] }

MemoryResults == {"m1", "m2"}
SeverityResults == {"s1"}

Undefined == "undefined"
Null == "null"
ErrorMemory == "Error loading content."
ErrorScores == "[]"

(***************************************************************************)
(* Sequence helpers.                                                       *)
(***************************************************************************)
Range(s) == {s[i] : i \in 1..Len(s)}

RECURSIVE Join(_, _)
Join(parts, sep) ==
    IF Len(parts) = 0 THEN <<>>
    ELSE IF Len(parts) = 1 THEN parts[1]
    ELSE parts[1] \o <<sep>> \o Join(Tail(parts), sep)

(***************************************************************************)
(* Colours (App.tsx 12-34).                                                *)
(***************************************************************************)
colors == << <<59, 130, 246>>, <<139, 92, 246>>, <<236, 72, 153>>,
             <<245, 158, 11>>, <<16, 185, 129>>, <<99, 102, 241>>,
             <<20, 184, 166>> >>
responseColor == <<16, 185, 129>>
rootColor == <<225, 29, 72>>

Clamp(x) == IF x > 255 THEN 255 ELSE IF x < 0 THEN 0 ELSE x

shadeColor(color, percent) ==
    [i \in 1..3 |-> Clamp((color[i] * (100 + percent)) \div 100)]

(***************************************************************************)
(* Cache keys (geminiService.ts 44, 236).                                  *)
(***************************************************************************)
CacheKey(nodeLabel, parentChain) ==
    IF Len(parentChain) > 0
    THEN nodeLabel \o <<"|">> \o Join(parentChain, ">")
    ELSE nodeLabel

(***************************************************************************)
(* The service's cache lookups: [hit, value].                              *)
(***************************************************************************)
\* A faulty lookup that never finds an entry (C5 must tell it apart).
LookupAlwaysMisses(cache, key) == [hit |-> FALSE, value |-> {}]

Lookup(cache, key) ==
    IF key \in DOMAIN cache
    THEN [hit |-> TRUE, value |-> {cache[key]}]
    ELSE [hit |-> FALSE, value |-> {}]

expandNodeLookup(cache, nodeLabel, parentChain) ==
    Lookup(cache, CacheKey(nodeLabel, parentChain))

getNodeMemoryLookup(cache, nodeLabel) == Lookup(cache, nodeLabel)

getSeverityScoresLookup(cache, nodeLabel) == Lookup(cache, nodeLabel)

CacheSet(cache, key, value) ==
    [k \in DOMAIN cache \cup {key} |-> IF k = key THEN value ELSE cache[k]]

CacheDelete(cache, key) == [k \in DOMAIN cache \ {key} |-> cache[k]]

EmptyCache == [k \in {} |-> {}]

\* A faulty clearNodeCache that deletes nothing (C20).
clearNodeCacheKeepsEntry(cache, nodeLabel, parentChain) == cache

clearNodeCache(cache, nodeLabel, parentChain) ==
    CacheDelete(cache, CacheKey(nodeLabel, parentChain))

\* A faulty clearAllCaches that forgets the expansion cache (C7).
clearAllButExpand(mem, sev, exp) ==
    [memory |-> [k \in {} |-> {}], severity |-> [k \in {} |-> {}], expand |-> exp]

\* clearAllCaches: the three maps after the call.
clearAllCaches(mem, sev, exp) ==
    [memory |-> EmptyCache, severity |-> EmptyCache, expand |-> EmptyCache]

(***************************************************************************)
(* The graph store (App.tsx).                                              *)
(***************************************************************************)
NewNode(id, label, parentId, depth, isExpanded, color, nodeType) ==
    [id |-> id, label |-> label, parentId |-> parentId, depth |-> depth,
     isExpanded |-> isExpanded, memory |-> Undefined,
     severityScores |-> Undefined, color |-> color, nodeType |-> nodeType]

\* nodes.find(n => n.id === id): the index of the first match, 0 if none.
FindNode(ns, id) ==
    IF \E i \in 1..Len(ns) : ns[i].id = id
    THEN CHOOSE i \in 1..Len(ns) :
            ns[i].id = id /\ \A j \in 1..(i - 1) : ns[j].id # id
    ELSE 0

\* A faulty walk that does not stop at the root and takes its label too (C12).
RECURSIVE WalkChainThroughRoot(_, _, _)
WalkChainThroughRoot(ns, currentId, chain) ==
    IF currentId = Absent THEN chain
    ELSE LET i == FindNode(ns, currentId) IN
         IF i = 0 THEN chain
         ELSE WalkChainThroughRoot(ns, ns[i].parentId, <<ns[i].label>> \o chain)

RECURSIVE WalkChain(_, _, _)
WalkChain(ns, currentId, chain) ==
    IF currentId = Absent THEN chain
    ELSE LET i == FindNode(ns, currentId) IN
         IF i = 0 \/ currentId = RootId THEN chain
         ELSE WalkChain(ns, ns[i].parentId, <<ns[i].label>> \o chain)

buildParentChain(ns, nodeId) == WalkChain(ns, nodeId, <<>>)

\* A faulty getDescendants that stops at the children (C18).
getChildrenOnly(ns, nodeId) ==
    {ns[i].id : i \in {j \in 1..Len(ns) : ns[j].parentId = nodeId}}

\* getDescendants returns a list that is used only through includes().
RECURSIVE getDescendants(_, _)
getDescendants(ns, nodeId) ==
    LET children == {i \in 1..Len(ns) : ns[i].parentId = nodeId} IN
    {ns[i].id : i \in children}
        \cup UNION {getDescendants(ns, ns[i].id) : i \in children}

\* A faulty builder that puts the children at the depth of their parent (C25).
BuildChildrenAtParentDepth(parent, result, firstId) ==
    LET labels == result.consequences \o result.responses IN
    [i \in 1..Len(labels) |->
        [id |-> firstId + i - 1, label |-> labels[i], parentId |-> parent.id,
         depth |-> parent.depth, isExpanded |-> FALSE, memory |-> "undefined",
         severityScores |-> "undefined", color |-> parent.color,
         nodeType |-> IF i <= Len(result.consequences)
                      THEN "consequence" ELSE "response"]]

\* The child nodes built from a generator result, ids from firstId on.
BuildChildren(parent, result, firstId) ==
    LET nc == Len(result.consequences)
        nr == Len(result.responses)
    IN [i \in 1..(nc + nr) |->
          IF i <= nc
          THEN NewNode(firstId + i - 1, result.consequences[i], parent.id,
                       parent.depth + 1, FALSE,
                       shadeColor(parent.color, -20), "consequence")
          ELSE NewNode(firstId + i - 1, result.responses[i - nc], parent.id,
                       parent.depth + 1, FALSE, responseColor, "response")]

\* A faulty link builder that links every child to the root (C17).
BuildLinksFromRoot(newNodes) ==
    [i \in 1..Len(newNodes) |-> [source |-> 0, target |-> newNodes[i].id]]

BuildLinks(newNodes) ==
    [i \in 1..Len(newNodes) |->
        [source |-> newNodes[i].parentId, target |-> newNodes[i].id]]

SetExpanded(ns, id, flag) ==
    [i \in 1..Len(ns) |->
        IF ns[i].id = id THEN [ns[i] EXCEPT !.isExpanded = flag] ELSE ns[i]]

\* A faulty commit that stores the caller's record of the parent (C28).
AttachNodesFromSnapshot(ns, parent, newNodes) ==
    [i \in 1..Len(ns) |->
        IF ns[i].id = parent.id THEN [parent EXCEPT !.isExpanded = TRUE]
        ELSE ns[i]] \o newNodes

\* A faulty commit that appends the children but leaves the flag alone (C19).
AttachNodesFlagUntouched(ns, parent, newNodes) == ns \o newNodes

\* The commit of an expansion or of a refresh (App.tsx 262-265, 346-349).
AttachNodes(ns, parent, newNodes) == SetExpanded(ns, parent.id, TRUE) \o newNodes

AttachLinks(ls, newNodes) == ls \o BuildLinks(newNodes)

\* A faulty prune that collapses the node but keeps its descendants (C8).
PruneNodesKeepingAll(ns, nodeId, descendantIds) ==
    [i \in 1..Len(ns) |->
        IF ns[i].id = nodeId THEN [ns[i] EXCEPT !.isExpanded = FALSE] ELSE ns[i]]

\* The prune of a refresh (App.tsx 294-301).
PruneNodes(ns, nodeId, descendantIds) ==
    SetExpanded(SelectSeq(ns, LAMBDA n : n.id \notin descendantIds),
                nodeId, FALSE)

PruneLinks(ls, descendantIds) ==
    SelectSeq(ls, LAMBDA l : l.source \notin descendantIds
                             /\ l.target \notin descendantIds)

\* A faulty context switch that also forgets the content of the kept nodes (C22).
CountryNodesForgetsContent(ns) ==
    LET nodesToKeep == SelectSeq(ns, LAMBDA n : n.depth <= 1) IN
    [i \in 1..Len(nodesToKeep) |->
        [nodesToKeep[i] EXCEPT !.isExpanded = (nodesToKeep[i].depth = 0),
                               !.memory = "undefined",
                               !.severityScores = "undefined"]]

\* The prune of a context switch (App.tsx 81-99).
CountryNodes(ns) ==
    LET nodesToKeep == SelectSeq(ns, LAMBDA n : n.depth <= 1) IN
    [i \in 1..Len(nodesToKeep) |->
        [nodesToKeep[i] EXCEPT !.isExpanded = (nodesToKeep[i].depth = 0)]]

\* A faulty link filter that looks at the source end only (C6).
CountryLinksBySource(ns, ls) ==
    SelectSeq(ls, LAMBDA l : \E n \in Range(ns) : n.depth <= 1 /\ n.id = l.source)

CountryLinks(ns, ls) ==
    LET nodeIdsToKeep == {n.id : n \in Range(SelectSeq(ns, LAMBDA n : n.depth <= 1))} IN
    SelectSeq(ls, LAMBDA l : l.source \in nodeIdsToKeep
                             /\ l.target \in nodeIdsToKeep)

\* The chart takes new node data only when a count changed (Graph 292-312).
ChartUpdate(chart, oldNodes, oldLinks, newNodes, newLinks) ==
    IF Len(newNodes) # Len(oldNodes) \/ Len(newLinks) # Len(oldLinks)
    THEN newNodes
    ELSE chart

(***************************************************************************)
(* History records.                                                        *)
(***************************************************************************)
NoResult == [consequences |-> <<>>, responses |-> <<>>]

NoCall == [called |-> FALSE, key |-> <<>>, had |-> FALSE, invoked |-> FALSE,
           returned |-> {}]

NoCalls == [expand |-> NoCall, memory |-> NoCall, severity |-> NoCall]

Call(key, had, look) ==
    [called |-> TRUE, key |-> key, had |-> had, invoked |-> ~look.hit,
     returned |-> look.value]

Step(op, id, calls, result, removed, firstId) ==
    [op |-> op, id |-> id, calls |-> calls, result |-> result,
     removed |-> removed, firstId |-> firstId, replaced |-> <<>>]

Task(kind, pc, node, parentChain, country, descendantIds, replaced) ==
    [kind |-> kind, pc |-> pc, node |-> node, parentChain |-> parentChain,
     country |-> country, descendantIds |-> descendantIds,
     replaced |-> replaced]

Put(bag, t) == bag (+) SetToBag({t})
Take(bag, t) == bag (-) SetToBag({t})

\* One more generator call for the expansion of node id.
Counted(gens, id) == gens (+) SetToBag({id})
Reset(gens, ids) == [i \in DOMAIN gens \ ids |-> gens[i]]

InFlightOn(id) ==
    \E t \in BagToSet(tasks) : t.kind \in {"expand", "refresh"} /\ t.node.id = id

ChildLabels(ns, id) ==
    LET children == SelectSeq(ns, LAMBDA n : n.parentId = id) IN
    [i \in 1..Len(children) |-> children[i].label]

SeqOf(x, n) == [i \in 1..n |-> x]

(***************************************************************************)
(* Initial state: the module is loaded, the graph is not yet built.        *)
(***************************************************************************)
GraphInit ==
    /\ nodes = <<>>
    /\ links = <<>>
    /\ chartNodes = <<>>
    /\ selectedCountry \in Countries
    /\ memoryCache = EmptyCache
    /\ severityCache = EmptyCache
    /\ expandCache = EmptyCache
    /\ tasks = EmptyBag
    /\ nextId = 1
    /\ ops = 0
    /\ generatorCalls = 0
    /\ batchOf = <<>>
    /\ generations = EmptyBag
    /\ overlapped = {}
    /\ last = Step("init", Absent, NoCalls, NoResult, {}, 0)

NotLoaded == [done |-> FALSE, expand |-> EmptyCache]

CodecIdle ==
    /\ logicalKeys = << <<>>, <<>> >>
    /\ saved = {}
    /\ firebase = EmptyCache
    /\ loaded = NotLoaded
    /\ storedCountry = selectedCountry

Init ==
    /\ GraphInit
    /\ CodecIdle

(***************************************************************************)
(* initializeGraph (App.tsx 118-178), no saved graph state.                *)
(***************************************************************************)
InitializeGraph(branches) ==
    /\ nodes = <<>>
    /\ last.op = "init"
    /\ LET rootNode == NewNode(RootId, RootLabel, Absent, 0, TRUE, rootColor, "root")
           primary == [i \in 1..Len(branches) |->
                         NewNode(nextId + i - 1, branches[i], RootId, 1, FALSE,
                                 colors[((i - 1) % Len(colors)) + 1],
                                 "primary_effect")]
           newNodes == <<rootNode>> \o primary
       IN /\ nodes' = newNodes
          /\ links' = BuildLinks(primary)
          /\ chartNodes' = newNodes
          /\ nextId' = nextId + Len(branches)
          /\ batchOf' = batchOf \o SeqOf(nextId, Len(branches))
          /\ last' = Step("initializeGraph", RootId, NoCalls, NoResult, {}, nextId)
    /\ UNCHANGED <<selectedCountry, cacheVars, tasks, ops, generatorCalls,
                   generations, overlapped, codecVars>>

(***************************************************************************)
(* The node records a caller can pass to a handler: the store's own        *)
(* (the detail panel) and the chart's (a click on the graph).              *)
(***************************************************************************)
CallerSnapshots == Range(nodes) \cup Range(chartNodes)

\* Refresh is offered by the detail panel only, and the panel is not shown
\* for the root (App.tsx 518, 585).
RefreshCallers == {n \in CallerSnapshots : n.id # RootId}

\* A faulty handleExpandNode without the depth guard (C24).
HandleExpandNodeAtAnyDepth(nodeToExpand) ==
    /\ ops < MaxOps
    /\ ~nodeToExpand.isExpanded
    /\ LET parentChain == buildParentChain(nodes, nodeToExpand.id)
           key == CacheKey(nodeToExpand.label, parentChain)
           look == expandNodeLookup(expandCache, nodeToExpand.label, parentChain)
           calls == [NoCalls EXCEPT
                       !.expand = Call(key, key \in DOMAIN expandCache, look)]
       IN /\ ops' = ops + 1
          /\ overlapped' = IF InFlightOn(nodeToExpand.id)
                           THEN overlapped \cup {nodeToExpand.id}
                           ELSE overlapped
          /\ IF look.hit
             THEN LET result == CHOOSE r \in look.value : TRUE
                      newNodes == BuildChildren(nodeToExpand, result, nextId)
                      nodesAfter == AttachNodes(nodes, nodeToExpand, newNodes)
                      linksAfter == AttachLinks(links, newNodes)
                  IN /\ nodes' = nodesAfter
                     /\ links' = linksAfter
                     /\ chartNodes' = ChartUpdate(chartNodes, nodes, links,
                                                  nodesAfter, linksAfter)
                     /\ nextId' = nextId + Len(newNodes)
                     /\ batchOf' = batchOf \o SeqOf(nextId, Len(newNodes))
                     /\ last' = Step("expandHit", nodeToExpand.id, calls,
                                     result, {}, nextId)
                     /\ UNCHANGED <<tasks, generations, generatorCalls>>
             ELSE /\ tasks' = Put(tasks, Task("expand", "gen", nodeToExpand,
                                              parentChain, selectedCountry,
                                              {}, <<>>))
                  /\ generations' = Counted(generations, nodeToExpand.id)
                  /\ generatorCalls' = generatorCalls + 1
                  /\ last' = Step("expandMiss", nodeToExpand.id, calls,
                                  NoResult, {}, nextId)
                  /\ UNCHANGED <<graphVars, nextId, batchOf>>
    /\ UNCHANGED <<selectedCountry, cacheVars, codecVars>>

(***************************************************************************)
(* handleExpandNode (App.tsx 223-274) up to the await of expandNode, and,  *)
(* on a cache hit, through the commit.                                     *)
(***************************************************************************)
HandleExpandNode(nodeToExpand) ==
    /\ ops < MaxOps
    /\ ~nodeToExpand.isExpanded
    /\ nodeToExpand.depth < MaxDepth
    /\ LET parentChain == buildParentChain(nodes, nodeToExpand.id)
           key == CacheKey(nodeToExpand.label, parentChain)
           look == expandNodeLookup(expandCache, nodeToExpand.label, parentChain)
           calls == [NoCalls EXCEPT
                       !.expand = Call(key, key \in DOMAIN expandCache, look)]
       IN /\ ops' = ops + 1
          /\ overlapped' = IF InFlightOn(nodeToExpand.id)
                           THEN overlapped \cup {nodeToExpand.id}
                           ELSE overlapped
          /\ IF look.hit
             THEN LET result == CHOOSE r \in look.value : TRUE
                      newNodes == BuildChildren(nodeToExpand, result, nextId)
                      nodesAfter == AttachNodes(nodes, nodeToExpand, newNodes)
                      linksAfter == AttachLinks(links, newNodes)
                  IN /\ nodes' = nodesAfter
                     /\ links' = linksAfter
                     /\ chartNodes' = ChartUpdate(chartNodes, nodes, links,
                                                  nodesAfter, linksAfter)
                     /\ nextId' = nextId + Len(newNodes)
                     /\ batchOf' = batchOf \o SeqOf(nextId, Len(newNodes))
                     /\ last' = Step("expandHit", nodeToExpand.id, calls,
                                     result, {}, nextId)
                     /\ UNCHANGED <<tasks, generations, generatorCalls>>
             ELSE /\ tasks' = Put(tasks, Task("expand", "gen", nodeToExpand,
                                              parentChain, selectedCountry,
                                              {}, <<>>))
                  /\ generations' = Counted(generations, nodeToExpand.id)
                  /\ generatorCalls' = generatorCalls + 1
                  /\ last' = Step("expandMiss", nodeToExpand.id, calls,
                                  NoResult, {}, nextId)
                  /\ UNCHANGED <<graphVars, nextId, batchOf>>
    /\ UNCHANGED <<selectedCountry, cacheVars, codecVars>>

(***************************************************************************)
(* The generator answers an expansion: expandNode caches the result        *)
(* (geminiService.ts 295-301) and handleExpandNode commits (241-267).      *)
(***************************************************************************)
ExpandResolve(t, result) ==
    /\ BagIn(t, tasks)
    /\ t.kind = "expand"
    /\ t.pc = "gen"
    /\ LET newNodes == BuildChildren(t.node, result, nextId)
           nodesAfter == AttachNodes(nodes, t.node, newNodes)
           linksAfter == AttachLinks(links, newNodes)
       IN /\ expandCache' = CacheSet(expandCache,
                                     CacheKey(t.node.label, t.parentChain), result)
          /\ nodes' = nodesAfter
          /\ links' = linksAfter
          /\ chartNodes' = ChartUpdate(chartNodes, nodes, links,
                                       nodesAfter, linksAfter)
          /\ nextId' = nextId + Len(newNodes)
          /\ batchOf' = batchOf \o SeqOf(nextId, Len(newNodes))
          /\ last' = Step("expandResolve", t.node.id, NoCalls, result, {}, nextId)
    /\ tasks' = Take(tasks, t)
    /\ UNCHANGED <<selectedCountry, memoryCache, severityCache, ops,
                   generatorCalls, generations, overlapped, codecVars>>

\* A faulty catch that marks the node expanded although nothing arrived (C4).
ExpandRejectMarksExpanded(t) ==
    /\ BagIn(t, tasks)
    /\ t.kind = "expand"
    /\ t.pc = "gen"
    /\ nodes' = [i \in 1..Len(nodes) |->
                    IF nodes[i].id = t.node.id
                    THEN [nodes[i] EXCEPT !.isExpanded = TRUE]
                    ELSE nodes[i]]
    /\ tasks' = tasks (-) SetToBag({t})
    /\ last' = [op |-> "expandReject", id |-> t.node.id,
                calls |-> [fn \in {"expand", "memory", "severity"} |->
                             [called |-> FALSE, key |-> <<>>, had |-> FALSE,
                              invoked |-> FALSE, returned |-> {}]],
                result |-> [consequences |-> <<>>, responses |-> <<>>],
                removed |-> {}, firstId |-> nextId, replaced |-> <<>>]
    /\ UNCHANGED <<links, chartNodes, selectedCountry, cacheVars, nextId, ops,
                   generatorCalls, batchOf, generations, overlapped, codecVars>>

(***************************************************************************)
(* The generator fails an expansion: the catch of handleExpandNode         *)
(* (App.tsx 269-273).                                                      *)
(***************************************************************************)
ExpandReject(t) ==
    /\ BagIn(t, tasks)
    /\ t.kind = "expand"
    /\ t.pc = "gen"
    /\ tasks' = Take(tasks, t)
    /\ last' = Step("expandReject", t.node.id, NoCalls, NoResult, {}, nextId)
    /\ UNCHANGED <<graphVars, selectedCountry, cacheVars, nextId, ops,
                   generatorCalls, batchOf, generations, overlapped, codecVars>>

(***************************************************************************)
(* handleRefreshNode (App.tsx 276-307): the prune, up to the 100 ms wait.  *)
(***************************************************************************)
HandleRefreshNode(nodeToRefresh) ==
    /\ ops < MaxOps
    /\ nodeToRefresh.isExpanded
    /\ LET descendantIds == getDescendants(nodes, nodeToRefresh.id)
           nodesAfter == PruneNodes(nodes, nodeToRefresh.id, descendantIds)
           linksAfter == PruneLinks(links, descendantIds)
       IN /\ nodes' = nodesAfter
          /\ links' = linksAfter
          /\ chartNodes' = ChartUpdate(chartNodes, nodes, links,
                                       nodesAfter, linksAfter)
          /\ tasks' = Put(tasks, Task("refresh", "wait", nodeToRefresh,
                                      buildParentChain(nodes, nodeToRefresh.id),
                                      selectedCountry, descendantIds,
                                      ChildLabels(nodes, nodeToRefresh.id)))
          /\ last' = Step("refreshPrune", nodeToRefresh.id, NoCalls, NoResult,
                          descendantIds, nextId)
    /\ ops' = ops + 1
    /\ overlapped' = IF InFlightOn(nodeToRefresh.id)
                     THEN overlapped \cup {nodeToRefresh.id}
                     ELSE overlapped
    /\ generations' = Reset(generations, {nodeToRefresh.id})
    /\ UNCHANGED <<selectedCountry, cacheVars, nextId, generatorCalls, batchOf,
                   codecVars>>

(***************************************************************************)
(* handleRefreshNode after the wait (App.tsx 309-323): clearNodeCache,     *)
(* then expandNode, which misses and calls the generator.                  *)
(***************************************************************************)
RefreshContinue(t) ==
    /\ BagIn(t, tasks)
    /\ t.kind = "refresh"
    /\ t.pc = "wait"
    /\ LET cleared == clearNodeCache(expandCache, t.node.label, t.parentChain)
           key == CacheKey(t.node.label, t.parentChain)
           look == expandNodeLookup(cleared, t.node.label, t.parentChain)
           calls == [NoCalls EXCEPT
                       !.expand = Call(key, key \in DOMAIN cleared, look)]
       IN /\ expandCache' = cleared
          /\ IF look.hit
             THEN LET result == CHOOSE r \in look.value : TRUE
                      newNodes == BuildChildren(t.node, result, nextId)
                      nodesAfter == AttachNodes(nodes, t.node, newNodes)
                      linksAfter == AttachLinks(links, newNodes)
                  IN /\ nodes' = nodesAfter
                     /\ links' = linksAfter
                     /\ chartNodes' = ChartUpdate(chartNodes, nodes, links,
                                                  nodesAfter, linksAfter)
                     /\ nextId' = nextId + Len(newNodes)
                     /\ batchOf' = batchOf \o SeqOf(nextId, Len(newNodes))
                     /\ tasks' = Take(tasks, t)
                     /\ last' = Step("refreshHit", t.node.id, calls, result,
                                     t.descendantIds, nextId)
                     /\ UNCHANGED <<generations, generatorCalls>>
             ELSE /\ tasks' = Put(Take(tasks, t), [t EXCEPT !.pc = "gen"])
                  /\ generations' = Counted(generations, t.node.id)
                  /\ generatorCalls' = generatorCalls + 1
                  /\ last' = Step("refreshMiss", t.node.id, calls, NoResult,
                                  t.descendantIds, nextId)
                  /\ UNCHANGED <<graphVars, nextId, batchOf>>
    /\ UNCHANGED <<selectedCountry, memoryCache, severityCache, ops,
                   overlapped, codecVars>>

(***************************************************************************)
(* The generator answers a refresh (geminiService.ts 295-301, App.tsx      *)
(* 325-352).                                                               *)
(***************************************************************************)
RefreshResolve(t, result) ==
    /\ BagIn(t, tasks)
    /\ t.kind = "refresh"
    /\ t.pc = "gen"
    /\ LET newNodes == BuildChildren(t.node, result, nextId)
           nodesAfter == AttachNodes(nodes, t.node, newNodes)
           linksAfter == AttachLinks(links, newNodes)
       IN /\ expandCache' = CacheSet(expandCache,
                                     CacheKey(t.node.label, t.parentChain), result)
          /\ nodes' = nodesAfter
          /\ links' = linksAfter
          /\ chartNodes' = ChartUpdate(chartNodes, nodes, links,
                                       nodesAfter, linksAfter)
          /\ nextId' = nextId + Len(newNodes)
          /\ batchOf' = batchOf \o SeqOf(nextId, Len(newNodes))
          /\ last' = [Step("refreshResolve", t.node.id, NoCalls, result,
                           t.descendantIds, nextId)
                        EXCEPT !.replaced = t.replaced]
    /\ tasks' = Take(tasks, t)
    /\ UNCHANGED <<selectedCountry, memoryCache, severityCache, ops,
                   generatorCalls, generations, overlapped, codecVars>>

\* A faulty catch that marks the node expanded again (C29).
RefreshRejectMarksExpanded(t) ==
    /\ BagIn(t, tasks)
    /\ t.kind = "refresh"
    /\ t.pc = "gen"
    /\ nodes' = [i \in 1..Len(nodes) |->
                    IF nodes[i].id = t.node.id
                    THEN [nodes[i] EXCEPT !.isExpanded = TRUE]
                    ELSE nodes[i]]
    /\ tasks' = tasks (-) SetToBag({t})
    /\ last' = [op |-> "refreshReject", id |-> t.node.id,
                calls |-> [fn \in {"expand", "memory", "severity"} |->
                             [called |-> FALSE, key |-> <<>>, had |-> FALSE,
                              invoked |-> FALSE, returned |-> {}]],
                result |-> [consequences |-> <<>>, responses |-> <<>>],
                removed |-> t.descendantIds, firstId |-> nextId,
                replaced |-> <<>>]
    /\ UNCHANGED <<links, chartNodes, selectedCountry, cacheVars, nextId, ops,
                   generatorCalls, batchOf, generations, overlapped, codecVars>>

(***************************************************************************)
(* The generator fails a refresh: the catch of handleRefreshNode           *)
(* (App.tsx 356-360).                                                      *)
(***************************************************************************)
RefreshReject(t) ==
    /\ BagIn(t, tasks)
    /\ t.kind = "refresh"
    /\ t.pc = "gen"
    /\ tasks' = Take(tasks, t)
    /\ last' = Step("refreshReject", t.node.id, NoCalls, NoResult,
                    t.descendantIds, nextId)
    /\ UNCHANGED <<graphVars, selectedCountry, cacheVars, nextId, ops,
                   generatorCalls, batchOf, generations, overlapped, codecVars>>

(***************************************************************************)
(* handleCountryChange (App.tsx 65-108).                                   *)
(***************************************************************************)
HandleCountryChange(newCountry) ==
    /\ ops < MaxOps
    /\ nodes # <<>>
    /\ LET cleared == clearAllCaches(memoryCache, severityCache, expandCache)
           nodesAfter == CountryNodes(nodes)
           linksAfter == CountryLinks(nodes, links)
       IN /\ storedCountry' = newCountry
          /\ selectedCountry' = newCountry
          /\ memoryCache' = cleared.memory
          /\ severityCache' = cleared.severity
          /\ expandCache' = cleared.expand
          /\ nodes' = nodesAfter
          /\ links' = linksAfter
          /\ chartNodes' = ChartUpdate(chartNodes, nodes, links,
                                       nodesAfter, linksAfter)
          /\ generations' = EmptyBag
          /\ last' = Step("countryChange", Absent, NoCalls, NoResult,
                          {n.id : n \in Range(nodes)} \ {n.id : n \in Range(nodesAfter)},
                          nextId)
    /\ ops' = ops + 1
    /\ UNCHANGED <<tasks, nextId, generatorCalls, batchOf, overlapped,
                   logicalKeys, saved, firebase, loaded>>

(***************************************************************************)
(* handleNodeClick (App.tsx 363-435): the memory fetch, the severity       *)
(* fetch and the automatic expansion, each up to its await; a cache hit    *)
(* resolves at once and its continuation runs before any other handler.    *)
(***************************************************************************)
SetMemory(ns, id, value) ==
    [i \in 1..Len(ns) |->
        IF ns[i].id = id THEN [ns[i] EXCEPT !.memory = value] ELSE ns[i]]

SetSeverity(ns, id, value) ==
    [i \in 1..Len(ns) |->
        IF ns[i].id = id THEN [ns[i] EXCEPT !.severityScores = value] ELSE ns[i]]

HandleNodeClick(node) ==
    /\ LET fetchMemory == node.memory = Undefined
           fetchScores == node.severityScores = Undefined
           autoExpand == ~node.isExpanded /\ node.depth < MaxDepth
           parentChain == buildParentChain(nodes, node.id)
           key == CacheKey(node.label, parentChain)
           memLook == getNodeMemoryLookup(memoryCache, node.label)
           sevLook == getSeverityScoresLookup(severityCache, node.label)
           expLook == expandNodeLookup(expandCache, node.label, parentChain)
           withMemory ==
               IF ~fetchMemory THEN nodes
               ELSE IF memLook.hit
                    THEN SetMemory(nodes, node.id, CHOOSE m \in memLook.value : TRUE)
                    ELSE SetMemory(nodes, node.id, Null)
           withScores ==
               IF ~fetchScores THEN withMemory
               ELSE IF sevLook.hit
                    THEN SetSeverity(withMemory, node.id, CHOOSE v \in sevLook.value : TRUE)
                    ELSE SetSeverity(withMemory, node.id, Null)
           attach == autoExpand /\ expLook.hit
           result == IF attach THEN CHOOSE r \in expLook.value : TRUE ELSE NoResult
           newNodes == IF attach THEN BuildChildren(node, result, nextId) ELSE <<>>
           nodesAfter == IF attach THEN AttachNodes(withScores, node, newNodes)
                         ELSE withScores
           linksAfter == IF attach THEN AttachLinks(links, newNodes) ELSE links
           started ==
               (IF fetchMemory /\ ~memLook.hit
                THEN SetToBag({Task("memory", "gen", node, parentChain,
                                    selectedCountry, {}, <<>>)})
                ELSE EmptyBag)
               (+) (IF fetchScores /\ ~sevLook.hit
                    THEN SetToBag({Task("severity", "gen", node, <<>>,
                                        selectedCountry, {}, <<>>)})
                    ELSE EmptyBag)
               (+) (IF autoExpand /\ ~expLook.hit
                    THEN SetToBag({Task("expand", "gen", node, parentChain,
                                        selectedCountry, {}, <<>>)})
                    ELSE EmptyBag)
           calls ==
               [memory |-> IF fetchMemory
                           THEN Call(node.label, node.label \in DOMAIN memoryCache,
                                     memLook)
                           ELSE NoCall,
                severity |-> IF fetchScores
                             THEN Call(node.label,
                                       node.label \in DOMAIN severityCache, sevLook)
                             ELSE NoCall,
                expand |-> IF autoExpand
                           THEN Call(key, key \in DOMAIN expandCache, expLook)
                           ELSE NoCall]
       IN /\ nodes' = nodesAfter
          /\ links' = linksAfter
          /\ chartNodes' = ChartUpdate(chartNodes, nodes, links,
                                       nodesAfter, linksAfter)
          /\ tasks' = tasks (+) started
          /\ nextId' = nextId + Len(newNodes)
          /\ batchOf' = batchOf \o SeqOf(nextId, Len(newNodes))
          /\ generations' = IF autoExpand /\ ~expLook.hit
                            THEN Counted(generations, node.id)
                            ELSE generations
          /\ overlapped' = IF autoExpand /\ InFlightOn(node.id)
                           THEN overlapped \cup {node.id}
                           ELSE overlapped
          /\ generatorCalls + BagCardinality(started) <= MaxCalls
          /\ generatorCalls' = generatorCalls + BagCardinality(started)
          /\ last' = Step("nodeClick", node.id, calls, result, {}, nextId)
    /\ UNCHANGED <<selectedCountry, cacheVars, ops, codecVars>>

(***************************************************************************)
(* The generator answers a memory request: getNodeMemory caches it         *)
(* (geminiService.ts 334-340) and the click handler stores it (386-392).   *)
(***************************************************************************)
MemoryResolve(t, memory) ==
    /\ BagIn(t, tasks)
    /\ t.kind = "memory"
    /\ memoryCache' = CacheSet(memoryCache, t.node.label, memory)
    /\ nodes' = SetMemory(nodes, t.node.id, memory)
    /\ tasks' = Take(tasks, t)
    /\ last' = Step("memoryResolve", t.node.id, NoCalls, NoResult, {}, nextId)
    /\ UNCHANGED <<links, chartNodes, selectedCountry, severityCache,
                   expandCache, nextId, ops, generatorCalls, batchOf, generations,
                   overlapped, codecVars>>

\* The generator fails a memory request (App.tsx 393-399).
MemoryReject(t) ==
    /\ BagIn(t, tasks)
    /\ t.kind = "memory"
    /\ nodes' = SetMemory(nodes, t.node.id, ErrorMemory)
    /\ tasks' = Take(tasks, t)
    /\ last' = Step("memoryReject", t.node.id, NoCalls, NoResult, {}, nextId)
    /\ UNCHANGED <<links, chartNodes, selectedCountry, cacheVars, nextId, ops,
                   generatorCalls, batchOf, generations, overlapped, codecVars>>

(***************************************************************************)
(* The generator answers a severity request (geminiService.ts, App.tsx     *)
(* 412-418).                                                               *)
(***************************************************************************)
SeverityResolve(t, scores) ==
    /\ BagIn(t, tasks)
    /\ t.kind = "severity"
    /\ severityCache' = CacheSet(severityCache, t.node.label, scores)
    /\ nodes' = SetSeverity(nodes, t.node.id, scores)
    /\ tasks' = Take(tasks, t)
    /\ last' = Step("severityResolve", t.node.id, NoCalls, NoResult, {}, nextId)
    /\ UNCHANGED <<links, chartNodes, selectedCountry, memoryCache,
                   expandCache, nextId, ops, generatorCalls, batchOf, generations,
                   overlapped, codecVars>>

\* The generator fails a severity request (App.tsx 419-425).
SeverityReject(t) ==
    /\ BagIn(t, tasks)
    /\ t.kind = "severity"
    /\ nodes' = SetSeverity(nodes, t.node.id, ErrorScores)
    /\ tasks' = Take(tasks, t)
    /\ last' = Step("severityReject", t.node.id, NoCalls, NoResult, {}, nextId)
    /\ UNCHANGED <<links, chartNodes, selectedCountry, cacheVars, nextId, ops,
                   generatorCalls, batchOf, generations, overlapped, codecVars>>

(***************************************************************************)
(* The graph engine: expansion, refresh and context switch.                *)
(***************************************************************************)
Next ==
    \/ \E b \in BranchResults : InitializeGraph(b)
    \/ \E n \in CallerSnapshots : HandleExpandNode(n)
    \/ \E t \in BagToSet(tasks), r \in ExpandResults : ExpandResolve(t, r)
    \/ \E t \in BagToSet(tasks) : ExpandReject(t)
    \/ \E n \in RefreshCallers : HandleRefreshNode(n)
    \/ \E t \in BagToSet(tasks) : RefreshContinue(t)
    \/ \E t \in BagToSet(tasks), r \in ExpandResults : RefreshResolve(t, r)
    \/ \E t \in BagToSet(tasks) : RefreshReject(t)
    \/ \E c \in Countries : HandleCountryChange(c)

Spec == Init /\ [][Next]_vars

(***************************************************************************)
(* Enrichment: clicks on nodes, each fetching memory and severity and      *)
(* expanding the node, and the answers of the generator.                   *)
(***************************************************************************)
NextEnrich ==
    \/ \E b \in BranchResults : InitializeGraph(b)
    \/ \E n \in CallerSnapshots : HandleNodeClick(n)
    \/ \E t \in BagToSet(tasks), r \in ExpandResults : ExpandResolve(t, r)
    \/ \E t \in BagToSet(tasks) : ExpandReject(t)
    \/ \E t \in BagToSet(tasks), m \in MemoryResults : MemoryResolve(t, m)
    \/ \E t \in BagToSet(tasks) : MemoryReject(t)
    \/ \E t \in BagToSet(tasks), v \in SeverityResults : SeverityResolve(t, v)
    \/ \E t \in BagToSet(tasks) : SeverityReject(t)

InitEnrich == Init /\ selectedCountry = NoCountry

SpecEnrich == InitEnrich /\ [][NextEnrich]_vars

(***************************************************************************)
(* The graph engine started after loadCachesOnce (geminiService.ts 12-28)  *)
(* has replaced the three caches by the maps loaded from the database.     *)
(***************************************************************************)
HydratedMemory == [k \in {LabelA} |-> "m1"]

HydratedSeverity == [k \in {LabelA} |-> "s1"]

HydratedKey == CacheKey(LabelB, <<LabelB>>)

HydratedExpand ==
    [k \in {HydratedKey} |-> [consequences |-> <<LabelC>>, responses |-> <<>>]]

InitHydrated ==
    /\ nodes = <<>>
    /\ links = <<>>
    /\ chartNodes = <<>>
    /\ selectedCountry \in Countries
    /\ memoryCache = HydratedMemory
    /\ severityCache = HydratedSeverity
    /\ expandCache = HydratedExpand
    /\ tasks = EmptyBag
    /\ nextId = 1
    /\ ops = 0
    /\ generatorCalls = 0
    /\ batchOf = <<>>
    /\ generations = EmptyBag
    /\ overlapped = {}
    /\ last = Step("init", Absent, NoCalls, NoResult, {}, 0)
    /\ CodecIdle

SpecHydrated == InitHydrated /\ [][Next]_vars

(***************************************************************************)
(* The key codec of the persistence layer (firebaseService.ts 30-55).      *)
(* String.replace with a global pattern: scan from the left, replace each  *)
(* occurrence and resume after it.                                         *)
(***************************************************************************)
Reserved == <<"|", ">", "<", "/", ".", "#", "$", "[", "]">>

MarkerWords == <<"pipe", "gt", "lt", "slash", "dot", "hash", "dollar",
                 "lbracket", "rbracket">>

Marker(i) == <<"_", MarkerWords[i], "_">>

StartsWith(s, pattern) ==
    /\ Len(pattern) <= Len(s)
    /\ SubSeq(s, 1, Len(pattern)) = pattern

RECURSIVE ReplaceAll(_, _, _)
ReplaceAll(s, pattern, replacement) ==
    IF Len(s) = 0 THEN <<>>
    ELSE IF StartsWith(s, pattern)
         THEN replacement
                \o ReplaceAll(SubSeq(s, Len(pattern) + 1, Len(s)), pattern, replacement)
         ELSE <<Head(s)>> \o ReplaceAll(Tail(s), pattern, replacement)

RECURSIVE SanitizeFrom(_, _)
SanitizeFrom(key, i) ==
    IF i > Len(Reserved) THEN key
    ELSE SanitizeFrom(ReplaceAll(key, <<Reserved[i]>>, Marker(i)), i + 1)

sanitizeKey(key) == SanitizeFrom(key, 1)

RECURSIVE UnsanitizeFrom(_, _)
UnsanitizeFrom(key, i) ==
    IF i > Len(Reserved) THEN key
    ELSE UnsanitizeFrom(ReplaceAll(key, Marker(i), <<Reserved[i]>>), i + 1)

unsanitizeKey(key) == UnsanitizeFrom(key, 1)

\* The text pieces the keys under test are made of.
KeyPieces == {"|", ">", ".", "_", "pipe", "a"}

RECURSIVE KeysOfLen(_)
KeysOfLen(n) ==
    IF n = 0 THEN {<<>>}
    ELSE {k \o <<p>> : k \in KeysOfLen(n - 1), p \in KeyPieces}

Keys == UNION {KeysOfLen(n) : n \in 1..MaxKeyLen}

\* The value cached under a logical key, named after the key.
ValueOf(key) == [cachedFor |-> key]

(***************************************************************************)
(* saveToCacheFirebase (firebaseService.ts 116-133), type 'expand'.        *)
(***************************************************************************)
SaveToCacheFirebase(i) ==
    /\ i \notin saved
    /\ logicalKeys[i] # <<>>
    /\ firebase' = CacheSet(firebase, sanitizeKey(logicalKeys[i]),
                            ValueOf(logicalKeys[i]))
    /\ saved' = saved \cup {i}
    /\ UNCHANGED <<graphVars, selectedCountry, cacheVars, tasks, nextId, ops,
                   generatorCalls, histVars, logicalKeys, loaded, storedCountry>>

(***************************************************************************)
(* loadCacheFromFirebase (firebaseService.ts 58-113), the expand map.      *)
(***************************************************************************)
LoadedMap(db) ==
    [k \in {unsanitizeKey(sanitizedKey) : sanitizedKey \in DOMAIN db} |->
        db[CHOOSE sanitizedKey \in DOMAIN db : unsanitizeKey(sanitizedKey) = k]]

LoadCacheFromFirebase ==
    /\ saved # {}
    /\ ~loaded.done
    /\ loaded' = [done |-> TRUE, expand |-> LoadedMap(firebase)]
    /\ UNCHANGED <<graphVars, selectedCountry, cacheVars, tasks, nextId, ops,
                   generatorCalls, histVars, logicalKeys, saved, firebase,
                   storedCountry>>

InitCodec ==
    /\ GraphInit
    /\ logicalKeys \in Keys \X Keys
    /\ saved = {}
    /\ firebase = EmptyCache
    /\ loaded = NotLoaded
    /\ storedCountry = selectedCountry

NextCodec ==
    \/ \E i \in 1..2 : SaveToCacheFirebase(i)
    \/ LoadCacheFromFirebase

SpecCodec == InitCodec /\ [][NextCodec]_vars

(***************************************************************************)
(* The generation service with its persistence (geminiService.ts,          *)
(* firebaseService.ts), driven by requests as the application makes them.  *)
(***************************************************************************)
ServiceFunctions == {"expand", "memory", "severity"}

LabelWithSeparator == <<"a", ">", "b">>

ServiceLabels == {LabelA}

ServiceChains == {<<>>, <<LabelA, LabelB>>, <<LabelWithSeparator>>}

\* caches/${type}/${sanitizedKey}
StoragePath(type, key) == <<"caches", "/", type, "/">> \o sanitizeKey(key)

StoredMemory == [p \in {StoragePath("memory", LabelA)} |-> "m1"]

StoredExpand ==
    [p \in {StoragePath("expand", CacheKey(LabelA, <<LabelA, LabelB>>))} |->
        [consequences |-> <<LabelC>>, responses |-> <<>>]]

ServiceDatabases == {EmptyCache, StoredMemory @@ StoredExpand}

\* The part of the database under caches/${type}, by sanitized key.
Section(db, type) ==
    LET paths == {p \in DOMAIN db : p[3] = type} IN
    [k \in {SubSeq(p, 5, Len(p)) : p \in paths} |->
        db[<<"caches", "/", type, "/">> \o k]]

CacheOfType(type, mem, sev, exp) ==
    IF type = "memory" THEN mem ELSE IF type = "severity" THEN sev ELSE exp

GeneratorResults(fn) ==
    IF fn = "memory" THEN MemoryResults
    ELSE IF fn = "severity" THEN SeverityResults
    ELSE ExpandResults

\* The key a service function computes for a request.
RequestKey(fn, nodeLabel, parentChain) ==
    IF fn = "expand" THEN CacheKey(nodeLabel, parentChain) ELSE nodeLabel

ServiceTask(fn, nodeLabel, parentChain, country, cacheKey) ==
    [kind |-> "call", pc |-> "gen", fn |-> fn, label |-> nodeLabel,
     parentChain |-> parentChain, country |-> country, key |-> cacheKey]

SaveTask(type, key, value) ==
    [kind |-> "save", pc |-> "set", type |-> type, key |-> key,
     text |-> IF type = "expand" THEN Undefined ELSE value,
     result |-> IF type = "expand" THEN value ELSE NoResult]

SavedValue(t) == IF t.type = "expand" THEN t.result ELSE t.text

ServiceStep(op, fn, call) ==
    Step(op, Absent, [NoCalls EXCEPT ![fn] = call], NoResult, {}, 0)

serviceFrame == <<graphVars, selectedCountry, nextId, ops, batchOf, generations,
                  overlapped, logicalKeys, saved, storedCountry>>

(***************************************************************************)
(* loadCachesOnce (geminiService.ts 12-28) completes: the three caches are *)
(* replaced by the maps loadCacheFromFirebase returns.                     *)
(***************************************************************************)
HydrateResolve ==
    /\ ~loaded.done
    /\ memoryCache' = LoadedMap(Section(firebase, "memory"))
    /\ severityCache' = LoadedMap(Section(firebase, "severity"))
    /\ expandCache' = LoadedMap(Section(firebase, "expand"))
    /\ loaded' = [done |-> TRUE, expand |-> LoadedMap(Section(firebase, "expand"))]
    /\ last' = Step("hydrate", Absent, NoCalls, NoResult, {}, 0)
    /\ UNCHANGED <<serviceFrame, tasks, generatorCalls, firebase>>

(***************************************************************************)
(* The database cannot be read: loadCacheFromFirebase catches the error    *)
(* and returns its empty maps (firebaseService.ts 67-70, 107-112), which   *)
(* loadCachesOnce installs.                                                *)
(***************************************************************************)
HydrateFail ==
    /\ ~loaded.done
    /\ memoryCache' = EmptyCache
    /\ severityCache' = EmptyCache
    /\ expandCache' = EmptyCache
    /\ loaded' = [done |-> TRUE, expand |-> EmptyCache]
    /\ last' = Step("hydrateFail", Absent, NoCalls, NoResult, {}, 0)
    /\ UNCHANGED <<serviceFrame, tasks, generatorCalls, firebase>>

(***************************************************************************)
(* expandNode / getNodeMemory / getSeverityScores up to the await of the   *)
(* generator, or through the return on a cache hit.                        *)
(***************************************************************************)
ServiceCall(fn, nodeLabel, parentChain) ==
    LET cache == CacheOfType(fn, memoryCache, severityCache, expandCache)
        key == RequestKey(fn, nodeLabel, parentChain)
        look == IF fn = "expand"
                THEN expandNodeLookup(cache, nodeLabel, parentChain)
                ELSE IF fn = "memory" THEN getNodeMemoryLookup(cache, nodeLabel)
                ELSE getSeverityScoresLookup(cache, nodeLabel)
        call == Call(key, key \in DOMAIN cache, look)
    IN /\ IF look.hit
          THEN /\ last' = ServiceStep("serviceHit", fn, call)
               /\ UNCHANGED <<tasks, generatorCalls>>
          ELSE /\ generatorCalls < MaxRequests
               /\ tasks' = Put(tasks, ServiceTask(fn, nodeLabel, parentChain,
                                                  selectedCountry, key))
               /\ generatorCalls' = generatorCalls + 1
               /\ last' = ServiceStep("serviceMiss", fn, call)
       /\ UNCHANGED <<serviceFrame, cacheVars, firebase, loaded>>

(***************************************************************************)
(* The generator answers: the result is cached, the save is started        *)
(* without waiting for it, and the result is returned.                     *)
(***************************************************************************)
ServiceResolve(t, result) ==
    /\ BagIn(t, tasks)
    /\ t.kind = "call"
    /\ memoryCache' = IF t.fn = "memory"
                      THEN CacheSet(memoryCache, t.key, result) ELSE memoryCache
    /\ severityCache' = IF t.fn = "severity"
                        THEN CacheSet(severityCache, t.key, result)
                        ELSE severityCache
    /\ expandCache' = IF t.fn = "expand"
                      THEN CacheSet(expandCache, t.key, result) ELSE expandCache
    /\ tasks' = Put(Take(tasks, t), SaveTask(t.fn, t.key, result))
    /\ last' = ServiceStep("serviceResolve", t.fn,
                           [called |-> TRUE, key |-> t.key, had |-> FALSE,
                            invoked |-> TRUE, returned |-> {result}])
    /\ UNCHANGED <<serviceFrame, generatorCalls, firebase, loaded>>

\* The generator fails: the service function rejects.
ServiceReject(t) ==
    /\ BagIn(t, tasks)
    /\ t.kind = "call"
    /\ tasks' = Take(tasks, t)
    /\ last' = ServiceStep("serviceReject", t.fn,
                           [called |-> TRUE, key |-> t.key, had |-> FALSE,
                            invoked |-> TRUE, returned |-> {}])
    /\ UNCHANGED <<serviceFrame, cacheVars, generatorCalls, firebase, loaded>>

(***************************************************************************)
(* saveToCacheFirebase (firebaseService.ts 116-133) writes the entry.      *)
(***************************************************************************)
SaveResolve(t) ==
    /\ BagIn(t, tasks)
    /\ t.kind = "save"
    /\ firebase' = CacheSet(firebase, StoragePath(t.type, t.key), SavedValue(t))
    /\ tasks' = Take(tasks, t)
    /\ last' = ServiceStep("saveOk", t.type,
                           [called |-> TRUE, key |-> t.key, had |-> FALSE,
                            invoked |-> FALSE, returned |-> {}])
    /\ UNCHANGED <<serviceFrame, cacheVars, generatorCalls, loaded>>

\* A faulty failure path that takes the entry back out of the cache (C16).
SaveFailEvictsEntry(t) ==
    /\ BagIn(t, tasks)
    /\ t.kind = "save"
    /\ memoryCache' = [k \in DOMAIN memoryCache \ {t.key} |-> memoryCache[k]]
    /\ severityCache' = [k \in DOMAIN severityCache \ {t.key} |-> severityCache[k]]
    /\ expandCache' = [k \in DOMAIN expandCache \ {t.key} |-> expandCache[k]]
    /\ tasks' = tasks (-) SetToBag({t})
    /\ last' = ServiceStep("saveFail", t.type,
                           [called |-> TRUE, key |-> t.key, had |-> FALSE,
                            invoked |-> FALSE, returned |-> {}])
    /\ UNCHANGED <<serviceFrame, generatorCalls, firebase, loaded>>

\* The write fails (or Firebase is not available): the error is logged.
SaveFail(t) ==
    /\ BagIn(t, tasks)
    /\ t.kind = "save"
    /\ tasks' = Take(tasks, t)
    /\ last' = ServiceStep("saveFail", t.type,
                           [called |-> TRUE, key |-> t.key, had |-> FALSE,
                            invoked |-> FALSE, returned |-> {}])
    /\ UNCHANGED <<serviceFrame, cacheVars, generatorCalls, firebase, loaded>>

\* clearNodeCache called on its own (geminiService.ts 43-47).
ClearNodeCacheCall(nodeLabel, parentChain) ==
    /\ expandCache' = clearNodeCache(expandCache, nodeLabel, parentChain)
    /\ last' = ServiceStep("clearNodeCache", "expand",
                           [called |-> TRUE,
                            key |-> CacheKey(nodeLabel, parentChain),
                            had |-> CacheKey(nodeLabel, parentChain)
                                       \in DOMAIN expandCache,
                            invoked |-> FALSE, returned |-> {}])
    /\ UNCHANGED <<serviceFrame, memoryCache, severityCache, tasks,
                   generatorCalls, firebase, loaded>>

InitService ==
    /\ GraphInit
    /\ logicalKeys = << <<>>, <<>> >>
    /\ saved = {}
    /\ firebase \in ServiceDatabases
    /\ loaded = NotLoaded
    /\ storedCountry = selectedCountry

NextService ==
    \/ HydrateResolve
    \/ HydrateFail
    \/ \E fn \in ServiceFunctions, l \in ServiceLabels, c \in ServiceChains :
          ServiceCall(fn, l, IF fn = "expand" THEN c ELSE <<>>)
    \/ \E t \in BagToSet(tasks), fn \in ServiceFunctions :
          \E r \in GeneratorResults(fn) : t.kind = "call" /\ t.fn = fn
                                          /\ ServiceResolve(t, r)
    \/ \E t \in BagToSet(tasks) : ServiceReject(t)
    \/ \E t \in BagToSet(tasks) : SaveResolve(t)
    \/ \E t \in BagToSet(tasks) : SaveFail(t)
    \/ \E l \in ServiceLabels, c \in ServiceChains : ClearNodeCacheCall(l, c)

SpecService == InitService /\ [][NextService]_vars

(***************************************************************************)
(* Observations used by the properties.                                    *)
(***************************************************************************)
Present(id) == \E n \in Range(nodes) : n.id = id

Children(ns, id) == SelectSeq(ns, LAMBDA n : n.parentId = id)

CacheOf(fn) ==
    IF fn = "expand" THEN expandCache
    ELSE IF fn = "memory" THEN memoryCache
    ELSE severityCache

\* The suspended executions that wait for the generator on behalf of fn.
Awaiting(bag, fn) ==
    LET waiting == {t \in BagToSet(bag) :
                      /\ t.pc = "gen"
                      /\ IF fn = "expand" THEN t.kind \in {"expand", "refresh"}
                         ELSE t.kind = fn}
    IN BagCardinality([t \in waiting |-> bag[t]])

\* What the children of a node must be when built from a generator result.
ExpectedChildren(result) ==
    [i \in 1..(Len(result.consequences) + Len(result.responses)) |->
        IF i <= Len(result.consequences)
        THEN [label |-> result.consequences[i], nodeType |-> "consequence"]
        ELSE [label |-> result.responses[i - Len(result.consequences)],
              nodeType |-> "response"]]

ActualChildren(id) ==
    LET children == Children(nodes, id) IN
    [i \in 1..Len(children) |->
        [label |-> children[i].label, nodeType |-> children[i].nodeType]]

(***************************************************************************)
(* C1: expanding the same node twice with no refresh (or context switch)   *)
(* in between invokes the generator at most once for that node.            *)
(***************************************************************************)
C1_AtMostOneGeneration ==
    \A id \in BagToSet(generations) : CopiesIn(id, generations) <= 1

(***************************************************************************)
(* C2: in every reachable state the children of a node come from at most   *)
(* one generation result: no node carries two attached batches.            *)
(***************************************************************************)
C2_OneBatchPerNode ==
    \A p \in Range(nodes) :
        Cardinality({batchOf[n.id] : n \in Range(Children(nodes, p.id))}) <= 1

(***************************************************************************)
(* C3: in every reachable state the parentId of every non-root node is     *)
(* the id of a node that is in the node collection.                        *)
(***************************************************************************)
C3_NoDanglingParent ==
    \A n \in Range(nodes) : n.parentId # Absent => Present(n.parentId)

(***************************************************************************)
(* C4: an expansion whose generator call fails commits nothing: neither    *)
(* the step that issues the call nor the step that handles the failure     *)
(* changes the nodes (so the isExpanded flag stays as it was), the links   *)
(* or any cache.                                                           *)
(***************************************************************************)
C4_FailedExpandCommitsNothing ==
    [][last'.op \in {"expandMiss", "expandReject"}
          => UNCHANGED <<nodes, links, memoryCache, severityCache, expandCache>>]_vars

C4_Witness ==
    /\ last.op = "expandReject"
    /\ \E n \in Range(nodes) : n.id = last.id /\ ~n.isExpanded

(***************************************************************************)
(* C5: whenever expandNode, getNodeMemory or getSeverityScores is called   *)
(* while its cache holds the key of the call, the cached value is returned *)
(* and the generator is not invoked: no call is counted and no execution   *)
(* starts waiting for the generator.                                       *)
(***************************************************************************)
C5_CacheHitShortCircuits ==
    [][\A fn \in ServiceFunctions :
          (last'.calls[fn].called /\ last'.calls[fn].had)
              => /\ ~last'.calls[fn].invoked
                 /\ last'.calls[fn].key \in DOMAIN CacheOf(fn)
                 /\ last'.calls[fn].returned = {CacheOf(fn)[last'.calls[fn].key]}
                 /\ Awaiting(tasks', fn) <= Awaiting(tasks, fn)]_vars

\* An enrichment of a node whose label is in the memory and severity caches.
C5_Witness ==
    /\ last.op = "nodeClick"
    /\ last.calls.memory.called /\ last.calls.memory.had
    /\ last.calls.severity.called /\ last.calls.severity.had
    /\ last.calls.expand.called /\ last.calls.expand.had

(***************************************************************************)
(* C6: the links are exactly the parentage relation: every link (s, t) has *)
(* a present node t with t.parentId = s, and every non-root node has       *)
(* exactly one link, the one from its parent.                              *)
(***************************************************************************)
C6_LinksAreParentage ==
    /\ \A i \in 1..Len(links) :
          \E n \in Range(nodes) :
              n.id = links[i].target /\ n.parentId = links[i].source
    /\ \A n \in Range(nodes) :
          n.parentId # Absent =>
              /\ Cardinality({i \in 1..Len(links) : links[i].target = n.id}) = 1
              /\ \E i \in 1..Len(links) :
                    links[i].target = n.id /\ links[i].source = n.parentId

\* A context switch has removed nodes while others, with their links, stay.
C6_Witness ==
    /\ last.op = "countryChange"
    /\ last.removed # {}
    /\ Len(links) > 0

C8_RefreshReplacesChildren ==
    (last.op = "refreshResolve" /\ last.id \notin overlapped)
        => /\ ActualChildren(last.id) = ExpectedChildren(last.result)
           /\ \A n \in Range(Children(nodes, last.id)) : n.id >= last.firstId
           /\ \A id \in last.removed : ~Present(id)

\* The refresh replaced children by those of a different result.
C8_Witness ==
    /\ last.op = "refreshResolve"
    /\ last.id \notin overlapped
    /\ last.replaced # <<>>
    /\ last.replaced # last.result.consequences \o last.result.responses
    /\ Children(nodes, last.id) # <<>>

(***************************************************************************)
(* C9: a raw cache key that contains none of the escape markers comes back *)
(* unchanged from unsanitizeKey(sanitizeKey(key)): once its entry has been *)
(* saved and the caches loaded, the entry is found under the same key.     *)
(***************************************************************************)
ContainsAt(s, pattern) ==
    \E i \in 1..Len(s) : StartsWith(SubSeq(s, i, Len(s)), pattern)

MarkerFree(key) == \A i \in 1..Len(Reserved) : ~ContainsAt(key, Marker(i))

C9_RoundTrip ==
    \A i \in saved :
        MarkerFree(logicalKeys[i])
            => /\ unsanitizeKey(sanitizeKey(logicalKeys[i])) = logicalKeys[i]
               /\ loaded.done => logicalKeys[i] \in DOMAIN loaded.expand

(***************************************************************************)
(* C10: sanitizeKey is injective over the keys the system produces: the    *)
(* entries of two distinct logical keys are stored under two distinct      *)
(* storage keys, and neither overwrites the other.                         *)
(***************************************************************************)
C10_Injective ==
    (saved = {1, 2} /\ logicalKeys[1] # logicalKeys[2])
        => /\ sanitizeKey(logicalKeys[1]) # sanitizeKey(logicalKeys[2])
           /\ Cardinality(DOMAIN firebase) = 2

(***************************************************************************)
(* The path from a node up to the root, as far as the store holds it.      *)
(***************************************************************************)
RECURSIVE Lineage(_, _)
Lineage(ns, id) ==
    LET i == FindNode(ns, id) IN
    IF i = 0 THEN {}
    ELSE IF ns[i].parentId = Absent THEN {ns[i]}
    ELSE {ns[i]} \cup Lineage(ns, ns[i].parentId)

\* The ancestry of a node is intact: every ancestor up to the root is present.
Intact(ns, n) ==
    /\ Cardinality(Lineage(ns, n.id)) = n.depth + 1
    /\ \E m \in Lineage(ns, n.id) : m.id = RootId

(***************************************************************************)
(* C12: for every present node N with intact ancestry, buildParentChain    *)
(* returns exactly N.depth labels, oldest first: its k-th element is the   *)
(* label of the node at depth k on the path from the root to N, and the    *)
(* root contributes no element.                                            *)
(***************************************************************************)
C12_ChainLengthAndOrder ==
    \A n \in Range(nodes) :
        Intact(nodes, n) =>
            LET chain == buildParentChain(nodes, n.id) IN
            /\ Len(chain) = n.depth
            /\ \A k \in 1..Len(chain) :
                  \E m \in Lineage(nodes, n.id) :
                      m.depth = k /\ m.id # RootId /\ m.label = chain[k]

\* A node two levels below the root, with its ancestors in the store.
C12_Witness ==
    \E n \in Range(nodes) :
        /\ n.depth = 2
        /\ Intact(nodes, n)
        /\ Len(buildParentChain(nodes, n.id)) = 2

(***************************************************************************)
(* C13: the chain computed for a node N does not include N's own label:    *)
(* it holds only the labels of N's proper ancestors below the root, one    *)
(* per level above N.                                                      *)
(***************************************************************************)
C13_ChainExcludesOwnLabel ==
    \A n \in Range(nodes) :
        (Intact(nodes, n) /\ n.id # RootId) =>
            LET chain == buildParentChain(nodes, n.id) IN
            /\ Len(chain) = n.depth - 1
            /\ \A k \in 1..Len(chain) :
                  \E m \in Lineage(nodes, n.id) :
                      m.depth = k /\ m.id \notin {RootId, n.id}
                                  /\ m.label = chain[k]

(***************************************************************************)
(* C14: memory fetch and severity fetch are idempotent per node, whatever  *)
(* node snapshot the click carries: at most one memory fetch and at most   *)
(* one severity fetch per node is ever in flight.                          *)
(***************************************************************************)
FetchesInFlight(kind, id) ==
    LET waiting == {t \in BagToSet(tasks) : t.kind = kind /\ t.node.id = id}
    IN BagCardinality([t \in waiting |-> tasks[t]])

C14_OneFetchInFlight ==
    \A n \in Range(nodes) :
        /\ FetchesInFlight("memory", n.id) <= 1
        /\ FetchesInFlight("severity", n.id) <= 1

(***************************************************************************)
(* C15: when the generator fails during a memory or severity fetch, the    *)
(* node's field is back in its pre-call state (unfetched), so that a later *)
(* click on the node fetches again.                                        *)
(***************************************************************************)
C15_FailedFetchRollsBack ==
    \A n \in Range(nodes) :
        n.id = last.id =>
            /\ last.op = "memoryReject" => n.memory = Undefined
            /\ last.op = "severityReject" => n.severityScores = Undefined

(***************************************************************************)
(* C17: the commit of an expansion of a present node P, from a result with *)
(* c consequences and r responses, adds exactly c + r nodes and c + r      *)
(* links; every new node has parentId P.id and depth P.depth + 1, every    *)
(* new link has source P.id, P.isExpanded is true afterwards, and every    *)
(* other node and link is as it was.                                       *)
(***************************************************************************)
IsCommitOf(step) == step.op \in {"expandResolve", "expandHit"}

C17_ExpandAddsExactlyTheResult ==
    [][(IsCommitOf(last') /\ Present(last'.id)) =>
          LET P == nodes[FindNode(nodes, last'.id)]
              added == Len(last'.result.consequences) + Len(last'.result.responses)
          IN /\ Len(nodes') = Len(nodes) + added
             /\ Len(links') = Len(links) + added
             /\ \A i \in (Len(nodes) + 1)..Len(nodes') :
                   nodes'[i].parentId = P.id /\ nodes'[i].depth = P.depth + 1
             /\ \A i \in (Len(links) + 1)..Len(links') : links'[i].source = P.id
             /\ \A i \in 1..Len(nodes) :
                   IF nodes[i].id = P.id
                   THEN nodes'[i] = [nodes[i] EXCEPT !.isExpanded = TRUE]
                   ELSE nodes'[i] = nodes[i]
             /\ \A i \in 1..Len(links) : links'[i] = links[i]]_vars

\* A collapsed primary node was expanded with one consequence and one response.
C17_Witness ==
    /\ last.op = "expandResolve"
    /\ Len(last.result.consequences) = 1
    /\ Len(last.result.responses) = 1
    /\ Len(nodes) = 5
    /\ Len(links) = 4
    /\ \E n \in Range(nodes) : n.id = last.id /\ n.isExpanded /\ n.depth = 1

(***************************************************************************)
(* C18: after the prune step of a refresh of a present node N, no node     *)
(* that has N among its ancestors remains, no link touches a removed node, *)
(* N is still present and N.isExpanded is false.                           *)
(***************************************************************************)
C18_PruneRemovesSubtree ==
    [][(last'.op = "refreshPrune" /\ Present(last'.id)) =>
          LET N == last'.id IN
          /\ \E n \in Range(nodes') : n.id = N /\ ~n.isExpanded
          /\ \A m \in Range(nodes') :
                m.id # N => \A a \in Lineage(nodes, m.id) : a.id # N
          /\ LET removedIds == {n.id : n \in Range(nodes)}
                                  \ {n.id : n \in Range(nodes')}
             IN \A i \in 1..Len(links') :
                   links'[i].source \notin removedIds
                       /\ links'[i].target \notin removedIds]_vars

\* The prune of a node below the root removed at least two nodes.
C18_Witness ==
    /\ last.op = "refreshPrune"
    /\ Present(last.id)
    /\ Cardinality(last.removed) >= 2
    /\ last.id # RootId

(***************************************************************************)
(* C19: attaching children is atomic with the flag update: every present   *)
(* node that has at least one child in the store has isExpanded true.      *)
(***************************************************************************)
C19_ChildrenImplyExpanded ==
    \A p \in Range(nodes) :
        (\E n \in Range(nodes) : n.parentId = p.id) => p.isExpanded

\* A node below the root carries children.
C19_Witness ==
    \E p \in Range(nodes) :
        /\ p.id # RootId
        /\ p.isExpanded
        /\ \E n \in Range(nodes) : n.parentId = p.id

(***************************************************************************)
(* C20: a refresh removes from the caches exactly the expansion entry      *)
(* under the refreshed node's own (label, chain) key: the prune changes no *)
(* cache, and the step that clears and regenerates leaves the memory       *)
(* cache, the severity cache and every other expansion entry as they were, *)
(* is not served from the cache and invokes the generator.                 *)
(***************************************************************************)
C20_RefreshClearsOwnEntryOnly ==
    [][/\ last'.op = "refreshPrune" =>
            UNCHANGED <<memoryCache, severityCache, expandCache>>
       /\ last'.op \in {"refreshMiss", "refreshHit"} =>
            LET key == last'.calls.expand.key IN
            /\ memoryCache' = memoryCache
            /\ severityCache' = severityCache
            /\ DOMAIN expandCache' = DOMAIN expandCache \ {key}
            /\ \A k \in DOMAIN expandCache' : expandCache'[k] = expandCache[k]
            /\ \A n \in Range(nodes) :
                  (n.id = last'.id /\ Intact(nodes, n))
                      => key = CacheKey(n.label, buildParentChain(nodes, n.id))
            /\ last'.op = "refreshMiss"
            /\ last'.calls.expand.invoked
            /\ generatorCalls' = generatorCalls + 1]_vars

\* The refresh deleted the loaded entry of its node; the other caches and
\* another expansion entry are still there.
C20_Witness ==
    /\ last.op = "refreshMiss"
    /\ last.calls.expand.key = HydratedKey
    /\ HydratedKey \notin DOMAIN expandCache
    /\ DOMAIN expandCache # {}
    /\ memoryCache = HydratedMemory
    /\ severityCache = HydratedSeverity

(***************************************************************************)
(* C11: the expansion-cache entry of a request is determined by (label,    *)
(* ordered ancestor chain, country): two expandNode requests with the same *)
(* label, chain and country use the same key, and two requests with the    *)
(* same label but different chains use distinct keys.                      *)
(***************************************************************************)
ExpandRequests == {t \in BagToSet(tasks) : t.kind = "call" /\ t.fn = "expand"}

C11_EntryByLabelChainCountry ==
    \A t1, t2 \in ExpandRequests :
        t1.label = t2.label =>
            /\ (t1.parentChain = t2.parentChain /\ t1.country = t2.country)
                  => t1.key = t2.key
            /\ t1.parentChain # t2.parentChain => t1.key # t2.key

(***************************************************************************)
(* C16: a persistence failure never affects the logical operation. The     *)
(* outcome of a Firebase write, failed or not, changes no cache and no     *)
(* pending request; the service call had already cached and returned the   *)
(* generator's result. A failed startup load leaves the three caches empty *)
(* and pending requests untouched.                                         *)
(***************************************************************************)
PendingCalls(bag) ==
    LET calls == {t \in BagToSet(bag) : t.kind = "call"} IN [t \in calls |-> bag[t]]

CalledFunction(step) == CHOOSE fn \in ServiceFunctions : step.calls[fn].called

C16_PersistenceFailureIsHarmless ==
    [][/\ last'.op \in {"saveOk", "saveFail"} =>
            /\ UNCHANGED <<memoryCache, severityCache, expandCache>>
            /\ PendingCalls(tasks') = PendingCalls(tasks)
       /\ last'.op = "serviceResolve" =>
            LET fn == CalledFunction(last')
                call == last'.calls[fn]
                cacheAfter == CacheOfType(fn, memoryCache', severityCache',
                                          expandCache')
            IN /\ call.key \in DOMAIN cacheAfter
               /\ call.returned = {cacheAfter[call.key]}
       /\ last'.op = "hydrateFail" =>
            /\ DOMAIN memoryCache' = {}
            /\ DOMAIN severityCache' = {}
            /\ DOMAIN expandCache' = {}
            /\ PendingCalls(tasks') = PendingCalls(tasks)]_vars

\* The startup load failed although the database holds entries, a request
\* then missed, was answered and cached, and its write failed.
C16_Witness ==
    /\ last.op = "saveFail"
    /\ \E fn \in ServiceFunctions :
          /\ last.calls[fn].called
          /\ last.calls[fn].key
                \in DOMAIN CacheOfType(fn, memoryCache, severityCache, expandCache)
          /\ StoragePath(fn, last.calls[fn].key) \notin DOMAIN firebase
    /\ loaded.done
    /\ loaded.expand = EmptyCache
    /\ firebase # EmptyCache

(***************************************************************************)
(* C21: a result cached while the startup hydration is still in flight     *)
(* stays in the in-memory cache when the hydration completes: every entry  *)
(* a cache held before loadCachesOnce installs the loaded maps is still    *)
(* found, with the same value, by a lookup made after it.                  *)
(***************************************************************************)
C21_CachedDuringHydrationSurvives ==
    [][last'.op \in {"hydrate", "hydrateFail"} =>
          /\ \A k \in DOMAIN memoryCache :
                getNodeMemoryLookup(memoryCache', k)
                    = [hit |-> TRUE, value |-> {memoryCache[k]}]
          /\ \A k \in DOMAIN severityCache :
                getSeverityScoresLookup(severityCache', k)
                    = [hit |-> TRUE, value |-> {severityCache[k]}]
          /\ \A k \in DOMAIN expandCache :
                Lookup(expandCache', k)
                    = [hit |-> TRUE, value |-> {expandCache[k]}]]_vars

(***************************************************************************)
(* Context switches during enrichment: clicks on nodes, the answers of the *)
(* generator and handleCountryChange, started after loadCachesOnce has     *)
(* installed caches that hold the content of one primary effect.           *)
(***************************************************************************)
MaxSwitches == 1
MaxClickCalls == 2

LoadedMemory == [k \in {LabelB} |-> "m1"]

LoadedSeverity == [k \in {LabelB} |-> "s1"]

InitContext ==
    /\ nodes = <<>>
    /\ links = <<>>
    /\ chartNodes = <<>>
    /\ selectedCountry = NoCountry
    /\ memoryCache = LoadedMemory
    /\ severityCache = LoadedSeverity
    /\ expandCache = HydratedExpand
    /\ tasks = EmptyBag
    /\ nextId = 1
    /\ ops = 0
    /\ generatorCalls = 0
    /\ batchOf = <<>>
    /\ generations = EmptyBag
    /\ overlapped = {}
    /\ last = Step("init", Absent, NoCalls, NoResult, {}, 0)
    /\ CodecIdle

NextContext ==
    \/ \E b \in BranchResults : InitializeGraph(b)
    \/ \E n \in CallerSnapshots :
          generatorCalls < MaxClickCalls /\ HandleNodeClick(n)
    \/ \E t \in BagToSet(tasks), r \in ExpandResults : ExpandResolve(t, r)
    \/ \E t \in BagToSet(tasks) : ExpandReject(t)
    \/ \E t \in BagToSet(tasks), m \in MemoryResults : MemoryResolve(t, m)
    \/ \E t \in BagToSet(tasks) : MemoryReject(t)
    \/ \E t \in BagToSet(tasks), v \in SeverityResults : SeverityResolve(t, v)
    \/ \E t \in BagToSet(tasks) : SeverityReject(t)
    \/ \E c \in Countries : ops < MaxSwitches /\ HandleCountryChange(c)

SpecContext == InitContext /\ [][NextContext]_vars

(***************************************************************************)
(* C22: a context switch leaves every kept node (depth <= 1) unchanged in  *)
(* id, label, parentId, depth, nodeType, color, memory and severityScores; *)
(* it changes only isExpanded, which becomes false for every depth-1 node  *)
(* and true for the root, and it keeps exactly the links whose two         *)
(* endpoints are both kept.                                                *)
(***************************************************************************)
KeptFields == {"id", "label", "parentId", "depth", "nodeType", "color",
               "memory", "severityScores"}

C22_ContextSwitchFrame ==
    [][last'.op = "countryChange" =>
          LET kept == SelectSeq(nodes, LAMBDA n : n.depth <= 1)
              keptIds == {n.id : n \in Range(kept)}
          IN /\ Len(nodes') = Len(kept)
             /\ \A i \in 1..Len(kept) :
                   /\ \A f \in KeptFields : nodes'[i][f] = kept[i][f]
                   /\ kept[i].depth = 1 => ~nodes'[i].isExpanded
                   /\ kept[i].id = RootId => nodes'[i].isExpanded
             /\ links' = SelectSeq(links, LAMBDA l : l.source \in keptIds
                                                     /\ l.target \in keptIds)]_vars

\* The switch removed the children of a primary effect that keeps its
\* memory and severity scores and is collapsed again.
C22_Witness ==
    /\ last.op = "countryChange"
    /\ last.removed # {}
    /\ \E n \in Range(nodes) :
          /\ n.depth = 1
          /\ ~n.isExpanded
          /\ n.memory = "m1"
          /\ n.severityScores = "s1"
    /\ Len(links) > 0

(***************************************************************************)
(* C23: buildParentChain always terminates, stops at the root sentinel,    *)
(* and returns the empty list whenever the given node or any of its        *)
(* ancestors is missing from the node collection: it never returns a       *)
(* partial chain.                                                          *)
(***************************************************************************)
AncestorMissing(ns, id) ==
    \E m \in Lineage(ns, id) :
        m.parentId # Absent /\ FindNode(ns, m.parentId) = 0

C23_MissingAncestorGivesEmptyChain ==
    /\ \A id \in 0..nextId :
          FindNode(nodes, id) = 0 => buildParentChain(nodes, id) = <<>>
    /\ \A n \in Range(nodes) :
          /\ RootLabel \notin Range(buildParentChain(nodes, n.id))
          /\ AncestorMissing(nodes, n.id) => buildParentChain(nodes, n.id) = <<>>

(***************************************************************************)
(* initializeGraph (App.tsx 118-129) with a saved graph state: the graph   *)
(* loadGraphState returns is installed as it is.  The saved graph is one   *)
(* left by an earlier session: the two primary effects, and below the      *)
(* first a chain of single consequences down to depth MaxDepth - 1.        *)
(***************************************************************************)
DeepWindow == 1

\* The colour of a consequence k levels below the first primary effect:
\* shadeColor applied k times to colors[1].  Black is a fixed point of
\* shadeColor, and the 21st shading of colors[1] reaches it.
ShadeTimes[k \in 0..MaxDepth] ==
    IF k = 0 THEN colors[1]
    ELSE IF k > 21 THEN <<0, 0, 0>>
    ELSE shadeColor(ShadeTimes[k - 1], -20)

\* The node at depth d >= 2 of the saved chain; its id is d + 1.
SavedChainNode(d) ==
    [NewNode(d + 1, LabelC, IF d = 2 THEN 1 ELSE d, d, FALSE,
             ShadeTimes[d - 1], "consequence")
        EXCEPT !.isExpanded = (d < MaxDepth - 1)]

SavedGraphNodes ==
    << NewNode(RootId, RootLabel, Absent, 0, TRUE, rootColor, "root"),
       [NewNode(1, LabelA, RootId, 1, FALSE, colors[1], "primary_effect")
           EXCEPT !.isExpanded = TRUE],
       NewNode(2, LabelB, RootId, 1, FALSE, colors[2], "primary_effect") >>
    \o [i \in 1..(MaxDepth - 2) |-> SavedChainNode(i + 1)]

SavedGraphLinks == BuildLinks(Tail(SavedGraphNodes))

RestoreGraph ==
    /\ nodes = <<>>
    /\ last.op = "init"
    /\ nodes' = SavedGraphNodes
    /\ links' = SavedGraphLinks
    /\ chartNodes' = SavedGraphNodes
    /\ nextId' = Len(SavedGraphNodes)
    /\ batchOf' = [id \in 1..(Len(SavedGraphNodes) - 1) |->
                      IF id <= 2 THEN 1 ELSE id]
    /\ last' = Step("restoreGraph", RootId, NoCalls, NoResult, {}, nextId)
    /\ UNCHANGED <<selectedCountry, cacheVars, tasks, ops, generatorCalls,
                   generations, overlapped, codecVars>>

\* The nodes the handlers are invoked on: those near the depth limit.
DeepSnapshots == {n \in CallerSnapshots : n.depth >= MaxDepth - DeepWindow}

NextDeep ==
    \/ RestoreGraph
    \/ \E n \in DeepSnapshots : HandleExpandNode(n)
    \/ \E t \in BagToSet(tasks), r \in ExpandResults : ExpandResolve(t, r)
    \/ \E t \in BagToSet(tasks) : ExpandReject(t)
    \/ \E n \in DeepSnapshots : HandleRefreshNode(n)
    \/ \E t \in BagToSet(tasks) : RefreshContinue(t)
    \/ \E t \in BagToSet(tasks), r \in ExpandResults : RefreshResolve(t, r)
    \/ \E t \in BagToSet(tasks) : RefreshReject(t)
    \/ \E c \in Countries : HandleCountryChange(c)

SpecDeep == Init /\ [][NextDeep]_vars

(***************************************************************************)
(* C24: expand is a no-op for a node whose depth is >= the maximum depth   *)
(* (50): no expansion is ever in flight for such a node, and after any     *)
(* sequence of expand, refresh and context-switch operations no node in    *)
(* the store has a depth greater than the maximum depth.                   *)
(***************************************************************************)
C24_DepthNeverExceedsMaximum ==
    /\ \A n \in Range(nodes) : n.depth <= MaxDepth
    /\ \A t \in BagToSet(tasks) : t.kind = "expand" => t.node.depth < MaxDepth

\* A node at the maximum depth is in the store, collapsed, while the
\* handlers can still be invoked.
C24_Witness ==
    /\ \E n \in Range(nodes) : n.depth = MaxDepth /\ ~n.isExpanded
    /\ ops < MaxOps
    /\ last.op = "expandResolve"

(***************************************************************************)
(* C25: in every reachable state after initialization exactly one node has *)
(* no parentId: the root, at depth 0, which no refresh and no context      *)
(* switch removes; and every other node whose parent is present has the    *)
(* depth of its parent plus one.                                           *)
(***************************************************************************)
C25_OneRootAndDepthByParent ==
    nodes # <<>> =>
        /\ Cardinality({i \in 1..Len(nodes) : nodes[i].parentId = Absent}) = 1
        /\ \A n \in Range(nodes) :
              n.parentId = Absent => (n.id = RootId /\ n.depth = 0)
        /\ \A n \in Range(nodes) : \A p \in Range(nodes) :
              p.id = n.parentId => n.depth = p.depth + 1

\* A refresh of a primary effect has completed and attached new children
\* two levels below the root.
C25_Witness ==
    /\ last.op = "refreshResolve"
    /\ last.id # RootId
    /\ \E n \in Range(nodes) :
          n.depth = 2 /\ n.id >= last.firstId /\ Present(n.parentId)
    /\ Present(RootId)

(***************************************************************************)
(* C26: content generated for the previous country is never committed      *)
(* after a context switch: when an expand, memory or severity generator    *)
(* call that was issued under another country than the one now selected    *)
(* resolves, its result is not stored in any cache, not attached as        *)
(* children and not written to a node.                                     *)
(***************************************************************************)
C26_NoCommitFromPreviousCountry ==
    [][(/\ last'.op \in {"expandResolve", "memoryResolve", "severityResolve"}
        /\ \E t \in BagToSet(tasks) :
              tasks' = Take(tasks, t) /\ t.country # selectedCountry)
          => UNCHANGED <<nodes, links, memoryCache, severityCache,
                         expandCache>>]_vars

(***************************************************************************)
(* C27: a cache entry removed by clearNodeCache (or clearAllCaches) is not *)
(* returned by a later lookup unless it was regenerated after the removal. *)
(* In particular, when the startup hydration completes right after         *)
(* clearNodeCache removed an entry, a lookup of the removed key misses.    *)
(***************************************************************************)
C27_RemovedEntryStaysRemoved ==
    [][(/\ last.op = "clearNodeCache"
        /\ last.calls.expand.had
        /\ last'.op \in {"hydrate", "hydrateFail"})
          => ~Lookup(expandCache', last.calls.expand.key).hit]_vars

(***************************************************************************)
(* C28: expand and enrich running concurrently on the same node do not     *)
(* overwrite each other.  The commit of an expansion changes only the      *)
(* parent's isExpanded and appends the new children and links: memory and  *)
(* severityScores of every node, pending markers and values written while  *)
(* the generator was in flight included, stay as they are.  The commit of  *)
(* a memory or severity fetch changes only that one field of that one      *)
(* node, and changes nothing if the node is no longer in the store.        *)
(***************************************************************************)
C28_ExpandAndEnrichDoNotInterfere ==
    [][/\ last'.op = "expandResolve" =>
            LET added == Len(last'.result.consequences)
                            + Len(last'.result.responses)
            IN /\ Len(nodes') = Len(nodes) + added
               /\ Len(links') = Len(links) + added
               /\ \A i \in 1..Len(nodes) :
                     nodes'[i] = IF nodes[i].id = last'.id
                                 THEN [nodes[i] EXCEPT !.isExpanded = TRUE]
                                 ELSE nodes[i]
               /\ \A i \in 1..Len(links) : links'[i] = links[i]
       /\ last'.op \in {"memoryResolve", "memoryReject"} =>
            /\ links' = links
            /\ Len(nodes') = Len(nodes)
            /\ \A i \in 1..Len(nodes) :
                  nodes'[i] = IF nodes[i].id = last'.id
                              THEN [nodes[i] EXCEPT !.memory = nodes'[i].memory]
                              ELSE nodes[i]
       /\ last'.op \in {"severityResolve", "severityReject"} =>
            /\ links' = links
            /\ Len(nodes') = Len(nodes)
            /\ \A i \in 1..Len(nodes) :
                  nodes'[i] = IF nodes[i].id = last'.id
                              THEN [nodes[i] EXCEPT !.severityScores =
                                                       nodes'[i].severityScores]
                              ELSE nodes[i]
       /\ (/\ last'.op \in {"memoryResolve", "memoryReject",
                            "severityResolve", "severityReject"}
           /\ ~Present(last'.id))
             => nodes' = nodes]_vars

\* The expansion of a node committed after its memory had arrived and while
\* its severity fetch was still pending.
C28_Witness ==
    /\ last.op = "expandResolve"
    /\ \E n \in Range(nodes) :
          /\ n.id = last.id
          /\ n.isExpanded
          /\ n.memory \in MemoryResults
          /\ n.severityScores = Null
    /\ \E n \in Range(nodes) : n.parentId = last.id
    /\ FetchesInFlight("severity", last.id) = 1

(***************************************************************************)
(* C29: if the generator call fails during a refresh, the node ends        *)
(* collapsed.  The step that clears and asks the generator leaves the      *)
(* expansion-cache entry of the node's key deleted, and the handling of    *)
(* the failure changes no node, no link and no cache, so the entry is not  *)
(* put back and a later expand regenerates.  Afterwards the descendants    *)
(* removed by the refresh are still gone and, unless another expansion of  *)
(* the same node overlapped, the node has isExpanded false and no child.   *)
(***************************************************************************)
C29_FailedRefreshLeavesCollapsed ==
    [][/\ last'.op = "refreshMiss" =>
            last'.calls.expand.key \notin DOMAIN expandCache'
       /\ last'.op = "refreshReject" =>
            /\ UNCHANGED <<nodes, links, memoryCache, severityCache,
                           expandCache>>
            /\ \A n \in Range(nodes') : n.id \notin last'.removed
            /\ last'.id \notin overlapped =>
                  /\ \A n \in Range(nodes') : n.id = last'.id => ~n.isExpanded
                  /\ Children(nodes', last'.id) = <<>>]_vars

\* The refresh of a node that had children failed: the node is there,
\* collapsed and childless, and the expansion cache lost its entry.
C29_Witness ==
    /\ last.op = "refreshReject"
    /\ last.id \notin overlapped
    /\ last.removed # {}
    /\ \E n \in Range(nodes) :
          /\ n.id = last.id
          /\ ~n.isExpanded
          /\ Intact(nodes, n)
          /\ CacheKey(n.label, buildParentChain(nodes, n.id))
                \notin DOMAIN expandCache
    /\ Children(nodes, last.id) = <<>>

(***************************************************************************)
(* Startup (App.tsx 43, 56-62, 118-178): the first render has no country   *)
(* selected; the mount effects then restore the persisted country and      *)
(* start initializeGraph, whose closure is the one of the first render.    *)
(***************************************************************************)
RootNode == NewNode(RootId, RootLabel, Absent, 0, TRUE, rootColor, "root")

InitStartup ==
    /\ GraphInit
    /\ selectedCountry = NoCountry
    /\ logicalKeys = << <<>>, <<>> >>
    /\ saved = {}
    /\ firebase = EmptyCache
    /\ loaded = NotLoaded
    /\ storedCountry \in Countries

\* The effects of the first commit, in their order of declaration.
Mount ==
    /\ last.op = "init"
    /\ tasks = EmptyBag
    /\ selectedCountry' = IF storedCountry # NoCountry
                          THEN storedCountry ELSE selectedCountry
    /\ tasks' = Put(tasks, Task("initialize", "load", RootNode, <<>>,
                                selectedCountry, {}, <<>>))
    /\ last' = Step("mount", RootId, NoCalls, NoResult, {}, nextId)
    /\ UNCHANGED <<graphVars, cacheVars, nextId, ops, generatorCalls, batchOf,
                   generations, overlapped, codecVars>>

\* loadGraphState finds no saved graph: generateInitialBranches is called
\* with the selectedCountry of the closure (App.tsx 121-143).
LoadGraphStateNone(t) ==
    /\ BagIn(t, tasks)
    /\ t.kind = "initialize"
    /\ t.pc = "load"
    /\ tasks' = Put(Take(tasks, t), [t EXCEPT !.pc = "gen"])
    /\ generatorCalls' = generatorCalls + 1
    /\ last' = Step("loadGraphStateNone", RootId, NoCalls, NoResult, {}, nextId)
    /\ UNCHANGED <<graphVars, selectedCountry, cacheVars, nextId, ops, batchOf,
                   generations, overlapped, codecVars>>

\* The generator answers generateInitialBranches (App.tsx 145-162).
BranchesResolve(t, branches) ==
    /\ BagIn(t, tasks)
    /\ t.kind = "initialize"
    /\ t.pc = "gen"
    /\ LET primary == [i \in 1..Len(branches) |->
                         NewNode(nextId + i - 1, branches[i], RootId, 1, FALSE,
                                 colors[((i - 1) % Len(colors)) + 1],
                                 "primary_effect")]
           newNodes == <<RootNode>> \o primary
       IN /\ nodes' = newNodes
          /\ links' = BuildLinks(primary)
          /\ chartNodes' = newNodes
          /\ nextId' = nextId + Len(branches)
          /\ batchOf' = batchOf \o SeqOf(nextId, Len(branches))
          /\ last' = Step("initializeGraph", RootId, NoCalls, NoResult, {}, nextId)
    /\ tasks' = Take(tasks, t)
    /\ UNCHANGED <<selectedCountry, cacheVars, ops, generatorCalls,
                   generations, overlapped, codecVars>>

\* The generator fails: the catch of initializeGraph (App.tsx 169-171).
BranchesReject(t) ==
    /\ BagIn(t, tasks)
    /\ t.kind = "initialize"
    /\ t.pc = "gen"
    /\ tasks' = Take(tasks, t)
    /\ last' = Step("initializeFailed", RootId, NoCalls, NoResult, {}, nextId)
    /\ UNCHANGED <<graphVars, selectedCountry, cacheVars, nextId, ops,
                   generatorCalls, batchOf, generations, overlapped, codecVars>>

NextStartup ==
    \/ Mount
    \/ \E t \in BagToSet(tasks) : LoadGraphStateNone(t)
    \/ \E t \in BagToSet(tasks), b \in BranchResults : BranchesResolve(t, b)
    \/ \E t \in BagToSet(tasks) : BranchesReject(t)
    \/ \E n \in CallerSnapshots : HandleExpandNode(n)
    \/ \E t \in BagToSet(tasks), r \in ExpandResults : ExpandResolve(t, r)
    \/ \E t \in BagToSet(tasks) : ExpandReject(t)
    \/ \E c \in Countries : HandleCountryChange(c)

SpecStartup == InitStartup /\ [][NextStartup]_vars

(***************************************************************************)
(* C30: on startup with a persisted country and no saved graph state, the  *)
(* initial primary effects are generated with that country:                *)
(* generateInitialBranches receives the country restored from storage,     *)
(* which is the selected country shown after startup.                      *)
(***************************************************************************)
C30_InitialBranchesUsePersistedCountry ==
    \A t \in BagToSet(tasks) :
        (t.kind = "initialize" /\ t.pc = "gen")
            => /\ t.country = storedCountry
               /\ t.country = selectedCountry

====
